---- MODULE Spec2Model ----
(***************************************************************************)
(* The AI agent orchestration of ai-library-manager:                       *)
(*   - the session registry of src/web/server.ts (aiAgents,                *)
(*     getOrCreateAgent, POST /api/ai/query, POST /api/ai/clear);          *)
(*   - AIAgentService of src/services/ai-agent.service.ts (query,          *)
(*     handleToolUse, generateRecommendations, extractSuggestions,         *)
(*     clearHistory);                                                      *)
(*   - the LibraryService reads the tools use.                             *)
(*                                                                         *)
(* Node runs one callback at a time, so a request handler runs without     *)
(* interruption between two awaits on I/O.  The only await on I/O in query *)
(* is client.messages.create: the awaits on getLibraryContext and on       *)
(* handleToolUse resume in the same microtask checkpoint, before any other *)
(* request's callback can run.  One action is therefore one stretch of     *)
(* code between two provider calls.                                        *)
(***************************************************************************)
EXTENDS Integers, Sequences, FiniteSets, TLC

(***************************************************************************)
(* Bounds of the model.                                                    *)
(***************************************************************************)
MaxReqs == 3          \* requests to /api/ai/query in one run of SpecSeq
MaxCalls == 3         \* provider calls in one run of SpecSeq
MaxConcReqs == 2      \* requests to /api/ai/query in one run of Spec
MaxConcCalls == 2     \* provider calls in one run of Spec
RichCalls == 2        \* calls of a query of SpecLoop answered from the full menu
MaxToolsReqs == 2     \* requests to /api/ai/query in one run of SpecTools
MaxToolsCalls == 4    \* provider calls in one run of SpecTools
MaxTextLen == 4       \* characters of a provider text drawn in SpecExtract
MaxBooks == 4         \* books of a library drawn in SpecRecommend

Reqs == 1..MaxReqs

(***************************************************************************)
(* JavaScript values.                                                      *)
(***************************************************************************)
Null == -1            \* null
Undefined == -2       \* undefined

\* a || null
OrNull(v) == IF v = Undefined \/ v = 0 THEN Null ELSE v

\* const { sessionId = 'default' } = req.body
DefaultSessionId == "default"
SessionIds == {"default", "s1"}
NoSession == "none"
SessionIdInputs == SessionIds \cup {NoSession}
ResolveSessionId(sidIn) == IF sidIn = NoSession THEN DefaultSessionId ELSE sidIn

\* req.body.bookContext: absent, or a book of the library (ids start at 1)
BookContexts == {Undefined, 1, 2}
\* bookContext?.id
OptId(bookContext) == bookContext

(***************************************************************************)
(* Text.  A string is a sequence of characters; the character "M" stands   *)
(* for the literal ---SUGGESTIONS--- and "m" for the same literal in       *)
(* another letter case.                                                    *)
(***************************************************************************)
\* a mutation of IsMarker: the literal is matched in its own letter case only
IsMarkerExact(c) == c = "M"

\* /---SUGGESTIONS---/i
IsMarker(c) == c \in {"M", "m"}
IsSpace(c) == c \in {" ", "\n"}
IsDigit(c) == c \in {"1", "2", "3"}

RECURSIVE TrimStart(_)
TrimStart(s) ==
  IF s # <<>> /\ IsSpace(Head(s)) THEN TrimStart(Tail(s)) ELSE s

RECURSIVE TrimEnd(_)
TrimEnd(s) ==
  IF s # <<>> /\ IsSpace(s[Len(s)]) THEN TrimEnd(SubSeq(s, 1, Len(s) - 1)) ELSE s

\* String.prototype.trim
Trim(s) == TrimEnd(TrimStart(s))

\* index of the first marker in s, 0 when there is none
RECURSIVE MarkerIndexFrom(_, _)
MarkerIndexFrom(s, k) ==
  IF k > Len(s) THEN 0
  ELSE IF IsMarker(s[k]) THEN k
  ELSE MarkerIndexFrom(s, k + 1)

MarkerIndex(s) == MarkerIndexFrom(s, 1)

\* s.split(/\n/)
RECURSIVE SplitFrom(_, _, _)
SplitFrom(s, k, cur) ==
  IF k > Len(s) THEN <<cur>>
  ELSE IF s[k] = "\n" THEN <<cur>> \o SplitFrom(s, k + 1, <<>>)
  ELSE SplitFrom(s, k + 1, Append(cur, s[k]))

SplitLines(s) == SplitFrom(s, 1, <<>>)

RECURSIVE SkipDigits(_)
SkipDigits(s) == IF s # <<>> /\ IsDigit(Head(s)) THEN SkipDigits(Tail(s)) ELSE s

\* a mutation of StripOrdinal: the ordinal stays
KeepOrdinal(line) == line

\* line.replace(/^\d+\.\s*/, '')
StripOrdinal(line) ==
  LET rest == SkipDigits(line)
  IN IF Len(rest) < Len(line) /\ rest # <<>> /\ Head(rest) = "."
     THEN TrimStart(Tail(rest))
     ELSE line

\* .map(line => line.replace(/^\d+\.\s*/, '').trim()).filter(line => line.length > 0)
RECURSIVE CleanLines(_)
CleanLines(lines) ==
  IF lines = <<>> THEN <<>>
  ELSE LET l == Trim(StripOrdinal(Head(lines)))
       IN (IF l = <<>> THEN <<>> ELSE <<l>>) \o CleanLines(Tail(lines))

\* .slice(0, n)
Slice0(seq, n) == SubSeq(seq, 1, IF Len(seq) < n THEN Len(seq) ELSE n)

MaxSuggestions == 3

\* a mutation of extractSuggestions: the message is trimmed, marker or not
TrimmedResponse(response) == [response EXCEPT !.message = Trim(@)]

extractSuggestions(response) ==
  LET k == MarkerIndex(response.message)
  IN IF k = 0 THEN response
     ELSE LET suggestionsText == Trim(SubSeq(response.message, k + 1, Len(response.message)))
              suggestions == Slice0(CleanLines(SplitLines(suggestionsText)), MaxSuggestions)
          IN [response EXCEPT !.suggestions = suggestions,
                              !.message = Trim(SubSeq(response.message, 1, k - 1))]

(***************************************************************************)
(* The Library Store (LibraryService over SQLite).  store.books is in      *)
(* insertion order, which is the order of dateAdded; the reads order by    *)
(* dateAdded DESC.  A genre of "" is a book without a genre.               *)
(***************************************************************************)
RECURSIVE Reverse(_)
Reverse(s) == IF s = <<>> THEN <<>> ELSE Append(Reverse(Tail(s)), Head(s))

RECURSIVE SelectSeqBy(_, _)
\* the elements of s that are in the set keep, in order
SelectSeqBy(s, keep) ==
  IF s = <<>> THEN <<>>
  ELSE (IF Head(s) \in keep THEN <<Head(s)>> ELSE <<>>) \o SelectSeqBy(Tail(s), keep)

SeqRange(s) == {s[k] : k \in 1..Len(s)}

Library ==
  [books |-> << [id |-> 1, title |-> "dune", status |-> "completed", genre |-> "scifi"],
                [id |-> 2, title |-> "emma", status |-> "want-to-read", genre |-> "scifi"] >>,
   notes |-> << [id |-> 1, bookId |-> 1] >>,
   savedQA |-> << [id |-> 1, bookId |-> 1] >>]

\* the FTS5 MATCH operator rejects a query string that is not in its query
\* syntax, such as an unbalanced quote, and better-sqlite3 throws
FtsSyntaxError(query) == query = "\""

\* SELECT * FROM books WHERE id = ?
getBookById(st, id) == SelectSeqBy(st.books, {b \in SeqRange(st.books) : b.id = id})

\* SELECT * FROM books [WHERE status = ? AND genre = ?] ORDER BY dateAdded DESC
getAllBooks(st, status, genre) ==
  SelectSeqBy(Reverse(st.books),
              {b \in SeqRange(st.books) : /\ (status # "" => b.status = status)
                                          /\ (genre # "" => b.genre = genre)})

\* SELECT books.* FROM books_fts ... WHERE books_fts MATCH ?
searchBooks(st, query) ==
  SelectSeqBy(st.books, {b \in SeqRange(st.books) : b.title = query})

\* SELECT * FROM notes WHERE bookId = ? ORDER BY createdAt DESC
getNotesByBookId(st, bookId) ==
  SelectSeqBy(Reverse(st.notes), {n \in SeqRange(st.notes) : n.bookId = bookId})

\* SELECT * FROM books WHERE status = ? ORDER BY dateAdded DESC
getBooksByStatus(st, status) ==
  SelectSeqBy(Reverse(st.books), {b \in SeqRange(st.books) : b.status = status})

CountStatus(st, status) == Len(getBooksByStatus(st, status))

getStatistics(st) ==
  [total |-> Len(st.books),
   completed |-> CountStatus(st, "completed"),
   reading |-> CountStatus(st, "reading"),
   wantToRead |-> CountStatus(st, "want-to-read"),
   onHold |-> CountStatus(st, "on-hold")]

(***************************************************************************)
(* generateRecommendations                                                 *)
(***************************************************************************)
\* the keys of genreCount in insertion (first-seen) order
RECURSIVE FirstSeen(_, _)
FirstSeen(bs, seen) ==
  IF bs = <<>> THEN seen
  ELSE IF Head(bs).genre # "" /\ Head(bs).genre \notin SeqRange(seen)
       THEN FirstSeen(Tail(bs), Append(seen, Head(bs).genre))
       ELSE FirstSeen(Tail(bs), seen)

\* the genres that are canonical array indices ("7", "10"), and their values
ArrayIndexKeys == {"7", "10"}
ArrayIndex(key) == IF key = "7" THEN 7 ELSE 10

RECURSIVE IndexKeysAscending(_)
IndexKeysAscending(keys) ==
  IF keys = {} THEN <<>>
  ELSE LET least == CHOOSE k \in keys : \A j \in keys : ArrayIndex(k) <= ArrayIndex(j)
       IN <<least>> \o IndexKeysAscending(keys \ {least})

\* Object.entries(genreCount): the own keys of an object come with the array
\* indices first, in ascending numeric order, then the other strings in
\* insertion order
ObjectEntries(inserted) ==
  IndexKeysAscending(SeqRange(inserted) \cap ArrayIndexKeys)
    \o SelectSeqBy(inserted, SeqRange(inserted) \ ArrayIndexKeys)

\* genreCount[g]
GenreCount(bs, g) == Cardinality({k \in 1..Len(bs) : bs[k].genre = g})

\* .sort(([, a], [, b]) => b - a): a stable sort, highest count first
RECURSIVE SortByCountDesc(_, _)
SortByCountDesc(genres, bs) ==
  IF genres = <<>> THEN <<>>
  ELSE LET best == CHOOSE k \in 1..Len(genres) :
                     /\ \A j \in 1..Len(genres) :
                          GenreCount(bs, genres[j]) <= GenreCount(bs, genres[k])
                     /\ \A j \in 1..(k - 1) :
                          GenreCount(bs, genres[j]) < GenreCount(bs, genres[k])
           rest == SubSeq(genres, 1, best - 1) \o SubSeq(genres, best + 1, Len(genres))
       IN <<genres[best]>> \o SortByCountDesc(rest, bs)

MaxFavoriteGenres == 3
MaxRecommendations == 5

(***************************************************************************)
(* Tool payloads.  fields is the set of properties the object has; a       *)
(* property outside fields is undefined in the code.                       *)
(***************************************************************************)
NoStats == [total |-> 0, completed |-> 0, reading |-> 0, wantToRead |-> 0, onHold |-> 0]

EmptyPayload ==
  [fields |-> {}, error |-> "", books |-> <<>>, count |-> 0, book |-> <<>>,
   notes |-> <<>>, stats |-> NoStats, recommendations |-> <<>>,
   favoriteGenres |-> <<>>, basedOn |-> ""]

ErrorPayload(msg) == [EmptyPayload EXCEPT !.fields = {"error"}, !.error = msg]

BooksPayload(bs) ==
  [EmptyPayload EXCEPT !.fields = {"books", "count"}, !.books = bs, !.count = Len(bs)]

\* a mutation of generateRecommendations: the want-to-read books are not
\* filtered by genre
RecommendAnyGenre(st, basedOn) ==
  [EmptyPayload EXCEPT !.fields = {"recommendations", "favoriteGenres", "basedOn", "message"},
                       !.recommendations =
                          Slice0(getBooksByStatus(st, "want-to-read"), MaxRecommendations),
                       !.basedOn = basedOn]

generateRecommendations(st, basedOn) ==
  LET completedBooks == getBooksByStatus(st, "completed")
      wantToReadBooks == getBooksByStatus(st, "want-to-read")
      favoriteGenres ==
        Slice0(SortByCountDesc(ObjectEntries(FirstSeen(completedBooks, <<>>)),
                               completedBooks),
               MaxFavoriteGenres)
      recommendations ==
        Slice0(SelectSeqBy(wantToReadBooks,
                           {b \in SeqRange(wantToReadBooks) :
                              b.genre # "" /\ b.genre \in SeqRange(favoriteGenres)}),
               MaxRecommendations)
  IN [EmptyPayload EXCEPT !.fields = {"recommendations", "favoriteGenres", "basedOn", "message"},
                          !.recommendations = recommendations,
                          !.favoriteGenres = favoriteGenres,
                          !.basedOn = basedOn]

(***************************************************************************)
(* handleToolUse.  The result is [threw, payload]: threw is TRUE when the  *)
(* store raises (the SQLite error leaves handleToolUse, which has no       *)
(* try/catch).                                                             *)
(***************************************************************************)
ToolNames == {"search_books", "get_all_books", "get_book_details",
              "get_statistics", "get_notes", "recommend_books"}

NoInput == [query |-> "", status |-> "", genre |-> "", bookId |-> Undefined, basedOn |-> ""]

Returns(payload) == [threw |-> FALSE, payload |-> payload]
Throws == [threw |-> TRUE, payload |-> EmptyPayload]

\* a mutation of UnknownToolResult: a name that is no tool raises
UnknownToolThrows == Throws

\* default: return { error: 'Unknown tool' }
UnknownToolResult == Returns(ErrorPayload("Unknown tool"))

\* if (!book) return { error: 'Book not found' }
BookNotFoundResult == Returns(ErrorPayload("Book not found"))

handleToolUse(st, toolName, input) ==
  CASE toolName = "search_books" ->
         IF FtsSyntaxError(input.query) THEN Throws
         ELSE Returns(BooksPayload(searchBooks(st, input.query)))
    [] toolName = "get_all_books" ->
         Returns(BooksPayload(getAllBooks(st, input.status, input.genre)))
    [] toolName = "get_book_details" ->
         IF getBookById(st, input.bookId) = <<>> THEN BookNotFoundResult
         ELSE Returns([EmptyPayload EXCEPT !.fields = {"book", "notes"},
                                           !.book = getBookById(st, input.bookId),
                                           !.notes = getNotesByBookId(st, input.bookId)])
    [] toolName = "get_statistics" ->
         Returns([EmptyPayload EXCEPT
                    !.fields = {"total", "completed", "reading", "wantToRead", "onHold"},
                    !.stats = getStatistics(st)])
    [] toolName = "get_notes" ->
         Returns([EmptyPayload EXCEPT !.fields = {"notes", "count"},
                                      !.notes = getNotesByBookId(st, input.bookId),
                                      !.count = Len(getNotesByBookId(st, input.bookId))])
    [] toolName = "recommend_books" ->
         Returns(generateRecommendations(st, input.basedOn))
    [] OTHER -> UnknownToolResult

\* a mutation of StoreAfterDispatch: get_notes deletes the notes it has read
StoreAfterNotesRead(st, toolName, input) ==
  IF toolName = "get_notes"
  THEN [st EXCEPT !.notes =
          SelectSeqBy(st.notes, {n \in SeqRange(st.notes) : n.bookId # input.bookId})]
  ELSE st

\* the store after handleToolUse: every case calls LibraryService methods
\* that run a SELECT and nothing else, the default case calls none
StoreAfterDispatch(st, toolName, input) == st

(***************************************************************************)
(* Turns of the conversation history and content blocks of a reply.        *)
(* The user message of the r-th request is the number r; the id of a       *)
(* tool_use block is <<request, provider call, block index>>, which is     *)
(* unique as the provider's ids are.                                       *)
(***************************************************************************)
TextBlock(t) == [type |-> "text", text |-> t]
ToolUseBlock(id, name, input) == [type |-> "tool_use", id |-> id, name |-> name, input |-> input]
\* content: JSON.stringify(toolResult)
ToolResultBlock(id, payload) == [type |-> "tool_result", tool_use_id |-> id, content |-> payload]

UserTurn(userMessage) == [role |-> "user", msg |-> userMessage, blocks |-> <<>>]
AssistantTurn(content) == [role |-> "assistant", msg |-> 0, blocks |-> content]
ToolResultTurn(id, payload) ==
  [role |-> "user", msg |-> 0, blocks |-> <<ToolResultBlock(id, payload)>>]

IsUserText(turn) == turn.role = "user" /\ turn.blocks = <<>>
IsToolResult(turn) == turn.role = "user" /\ turn.blocks # <<>>

\* currentResponse.content.some(block => block.type === 'tool_use')
HasToolUse(content) == \E k \in 1..Len(content) : content[k].type = "tool_use"

ToolUseIndexes(content) == {k \in 1..Len(content) : content[k].type = "tool_use"}

SetMin(S) == CHOOSE x \in S : \A y \in S : x <= y
SetMax(S) == CHOOSE x \in S : \A y \in S : y <= x

\* a mutation of DispatchIndex: the last tool_use block is the one dispatched
LastToolUseIndex(content) == SetMax(ToolUseIndexes(content))

\* for (const block of content) if (block.type === 'tool_use') { ...; break }
DispatchIndex(content) == SetMin(ToolUseIndexes(content))

\* a mutation of LastText: the first text block is taken
FirstText(content, message) ==
  LET texts == {k \in 1..Len(content) : content[k].type = "text"}
  IN IF texts = {} THEN message ELSE content[SetMin(texts)].text

\* for (const block of content) if (block.type === 'text') message = block.text
LastText(content, message) ==
  LET texts == {k \in 1..Len(content) : content[k].type = "text"}
  IN IF texts = {} THEN message ELSE content[SetMax(texts)].text

maxIterations == 5

(***************************************************************************)
(* What the provider may reply to the n-th call of request r.              *)
(***************************************************************************)
Answer == <<"A">>
AnswerWithSuggestions == <<"A", "\n", "M", "\n", "1", ".", " ", "X", "\n", "2", ".", " ", "Y">>

Use(r, n, k, name, input) == ToolUseBlock(<<r, n, k>>, name, input)

\* replies that end the loop
FinalReplies ==
  { <<TextBlock(Answer)>>,
    <<TextBlock(AnswerWithSuggestions)>>,
    <<TextBlock(Answer), TextBlock(<<"B">>)>>,
    <<>> }

\* replies that request tools: a few on every call, the others on the
\* first RichCalls calls of a query
ToolReplies(r, n) ==
  { <<Use(r, n, 1, "search_books", [NoInput EXCEPT !.query = "dune"])>>,
    <<TextBlock(<<"T">>),
      Use(r, n, 2, "get_book_details", [NoInput EXCEPT !.bookId = 9]),
      Use(r, n, 3, "search_books", [NoInput EXCEPT !.query = "dune"])>>,
    <<Use(r, n, 1, "nonexistent_tool", NoInput)>> }
  \cup
  IF n > RichCalls THEN {}
  ELSE { <<Use(r, n, 1, "search_books", [NoInput EXCEPT !.query = "\"" ])>>,
         <<Use(r, n, 1, "get_all_books", NoInput)>>,
         <<Use(r, n, 1, "get_book_details", [NoInput EXCEPT !.bookId = 1])>>,
         <<Use(r, n, 1, "get_statistics", NoInput)>>,
         <<Use(r, n, 1, "get_notes", [NoInput EXCEPT !.bookId = 1])>>,
         <<Use(r, n, 1, "recommend_books", [NoInput EXCEPT !.basedOn = "genre"]),
           Use(r, n, 2, "nonexistent_tool", NoInput)>> }

\* the replies of Spec and SpecSeq: one that ends the loop, one that goes on
PlainReplies(r, n) ==
  { <<TextBlock(AnswerWithSuggestions)>>,
    <<TextBlock(<<"T">>), Use(r, n, 2, "get_statistics", NoInput)>> }

(***************************************************************************)
(* State.                                                                  *)
(***************************************************************************)
VARIABLES
  store,                \* the Library Store
  aiAgents,             \* the keys of the aiAgents map of server.ts
  conversationHistory,  \* conversationHistory of the agent of each session id
  lastBookContextId,    \* lastBookContextId of the agent of each session id
  req,                  \* the requests to POST /api/ai/query
  appendedBy,           \* history: the request that pushed each turn
  clearedSince          \* history: a clear was served since the last query began

vars == <<store, aiAgents, conversationHistory, lastBookContextId, req,
          appendedBy, clearedSince>>

EmptyResponse ==
  [message |-> <<>>, books |-> <<>>, suggestions |-> <<>>,
   recommendations |-> <<>>, hasRecommendations |-> FALSE]

IdleReq ==
  [pc |-> "idle", sessionId |-> "", bookContext |-> Undefined, i |-> 0,
   finalResponse |-> EmptyResponse, status |-> 0, error |-> "",
   calls |-> <<>>, replies |-> <<>>, dispatched |-> <<>>,
   appended |-> <<>>, afterClear |-> FALSE,
   failedCalls |-> 0, callsAtFailure |-> 0, dispatchedAtFailure |-> 0]

Init ==
  /\ store = Library
  /\ aiAgents = {}
  /\ conversationHistory = [s \in SessionIds |-> <<>>]
  /\ lastBookContextId = [s \in SessionIds |-> Null]
  /\ req = [r \in Reqs |-> IdleReq]
  /\ appendedBy = [s \in SessionIds |-> <<>>]
  /\ clearedSince = [s \in SessionIds |-> FALSE]

RECURSIVE SumCalls(_)
SumCalls(n) == IF n = 0 THEN 0 ELSE Len(req[n].calls) + SumCalls(n - 1)
\* provider calls made so far
TotalCalls == SumCalls(MaxReqs)

InFlight == {r \in Reqs : req[r].pc = "awaitProvider"}

\* a mutation of ContextChanged: only a change between two books counts
ContextChangedBooksOnly(id, last) == id # Undefined /\ last # Null /\ id # last

\* a mutation of ContextChanged: only none <-> some counts
ContextChangedNoneOnly(id, last) == (id = Undefined) # (last = Null)

\* bookContext?.id !== this.lastBookContextId
ContextChanged(id, last) == id # last

\* the response of the query served last on session s before request r
PrevResponse(s, r) ==
  LET before == {a \in 1..(r - 1) : req[a].pc # "idle" /\ req[a].sessionId = s}
  IN IF before = {} THEN EmptyResponse ELSE req[SetMax(before)].finalResponse

\* a mutation of NewFinalResponse: the accumulator of the last query is kept
CarriedResponse(prev) == prev

\* let finalResponse = { message: '', books: [], suggestions: [] }: a local
\* of query built from a literal, whatever the agent returned before
NewFinalResponse(prev) == EmptyResponse

\* new AIAgentService(libraryService): conversationHistory = [] and
\* lastBookContextId = null
NewAgent == [conversationHistory |-> <<>>, lastBookContextId |-> Null, appendedBy |-> <<>>]

\* a mutation of getOrCreateAgent: every request gets an agent of its own
createAgent(s) == NewAgent

\* if (!aiAgents.has(sessionId)) aiAgents.set(sessionId, new AIAgentService(..));
\* return aiAgents.get(sessionId)
getOrCreateAgent(s) ==
  IF s \in aiAgents
  THEN [conversationHistory |-> conversationHistory[s],
        lastBookContextId |-> lastBookContextId[s],
        appendedBy |-> appendedBy[s]]
  ELSE NewAgent

\* the system prompt of the call before the loop: library statistics and
\* recent books, the book context block, the suggestions instruction
FullSystem == "full"

\* a mutation of FollowUpSystem: the follow-up call repeats the full prompt
FullSystemAgain == FullSystem

\* the system prompt of the call after a dispatch: answer from the tool
\* results, the suggestions instruction
FollowUpSystem == "followup"

(***************************************************************************)
(* POST /api/ai/query up to the first provider call: getOrCreateAgent,     *)
(* then query down to the first client.messages.create.  The request has   *)
(* a message (the handler answers 400 to one without, before any of this). *)
(***************************************************************************)
QueryStart(r, sidIn, bookContext) ==
  LET s == ResolveSessionId(sidIn)
      agent == getOrCreateAgent(s)
      changed == ContextChanged(OptId(bookContext), agent.lastBookContextId)
      kept == IF changed THEN <<>> ELSE agent.conversationHistory
      keptBy == IF changed THEN <<>> ELSE agent.appendedBy
      history == Append(kept, UserTurn(r))
  IN /\ req[r].pc = "idle"
     /\ \A q \in 1..(r - 1) : req[q].pc # "idle"
     /\ aiAgents' = aiAgents \cup {s}
     /\ lastBookContextId' =
          [lastBookContextId EXCEPT ![s] =
             IF changed THEN OrNull(OptId(bookContext)) ELSE agent.lastBookContextId]
     /\ conversationHistory' = [conversationHistory EXCEPT ![s] = history]
     /\ appendedBy' = [appendedBy EXCEPT ![s] = Append(keptBy, r)]
     /\ clearedSince' = [clearedSince EXCEPT ![s] = FALSE]
     /\ req' = [req EXCEPT ![r] =
                  [IdleReq EXCEPT !.pc = "awaitProvider",
                                  !.sessionId = s,
                                  !.bookContext = bookContext,
                                  !.finalResponse = NewFinalResponse(PrevResponse(s, r)),
                                  !.calls = <<[system |-> FullSystem, messages |-> history]>>,
                                  !.appended = <<UserTurn(r)>>,
                                  !.afterClear = clearedSince[s]]]
     /\ UNCHANGED store

(***************************************************************************)
(* The end of query: extractSuggestions, return, and res.json(response).   *)
(***************************************************************************)
Returned(q, content, finalResponse) ==
  [q EXCEPT !.pc = "done",
            !.status = 200,
            !.replies = Append(q.replies, content),
            !.finalResponse = extractSuggestions(finalResponse)]

\* a mutation of AfterProviderError: the call is made again
RetryAfterProviderError(q, history) ==
  [q EXCEPT !.failedCalls = q.failedCalls + 1,
            !.callsAtFailure = Len(q.calls),
            !.dispatchedAtFailure = Len(q.dispatched),
            !.calls = Append(q.calls, [system |-> q.calls[Len(q.calls)].system,
                                       messages |-> history])]

\* await client.messages.create rejects: query rejects, and the handler's
\* catch answers res.status(500).json({ error: error.message })
AfterProviderError(q, history) ==
  [q EXCEPT !.pc = "failed",
            !.status = 500,
            !.error = "provider",
            !.failedCalls = q.failedCalls + 1,
            !.callsAtFailure = Len(q.calls),
            !.dispatchedAtFailure = Len(q.dispatched)]

\* handleToolUse rejects: query rejects, the handler answers 500
AfterStoreError(q, content) ==
  [q EXCEPT !.pc = "failed",
            !.status = 500,
            !.error = "store",
            !.replies = Append(q.replies, content)]

\* a mutation of Assigned: the accumulator is extended
Concatenated(old, new) == old \o new

\* finalResponse.books = toolResult.books, and the same for recommendations:
\* the value the accumulator held is overwritten
Assigned(old, new) == new

\* a mutation of LoopOver: the loop has no ceiling
LoopNeverOver(i) == FALSE

\* the test of for (let i = 0; i < maxIterations; i++) fails
LoopOver(i) == ~(i < maxIterations)

(***************************************************************************)
(* The provider answers the call request r waits for: the for loop of      *)
(* query from its test i < maxIterations to the next provider call or to   *)
(* the return.  q.i is the value of i at that test.                        *)
(***************************************************************************)
ProviderReply(r, content) ==
  LET q == req[r]
      s == q.sessionId
      k == DispatchIndex(content)
      block == content[k]
      toolResult == handleToolUse(store, block.name, block.input)
      payload == toolResult.payload
      pushed == <<AssistantTurn(content), ToolResultTurn(block.id, payload)>>
      history == conversationHistory[s] \o pushed
      withBooks ==
        IF "books" \in payload.fields
        THEN [q.finalResponse EXCEPT !.books = Assigned(@, payload.books)]
        ELSE q.finalResponse
      withRecommendations ==
        IF "recommendations" \in payload.fields
        THEN [withBooks EXCEPT !.recommendations = Assigned(@, payload.recommendations),
                               !.hasRecommendations = TRUE]
        ELSE withBooks
  IN /\ q.pc = "awaitProvider"
     /\ IF LoopOver(q.i)
        THEN \* the loop is over: the reply is not looked at
             /\ req' = [req EXCEPT ![r] = Returned(q, content, q.finalResponse)]
             /\ UNCHANGED <<conversationHistory, appendedBy>>
        ELSE IF ~HasToolUse(content)
        THEN /\ conversationHistory' =
                  [conversationHistory EXCEPT ![s] = Append(@, AssistantTurn(content))]
             /\ appendedBy' = [appendedBy EXCEPT ![s] = Append(@, r)]
             /\ req' = [req EXCEPT ![r] =
                  [Returned(q, content,
                            [q.finalResponse EXCEPT
                               !.message = LastText(content, q.finalResponse.message)])
                     EXCEPT !.appended = Append(q.appended, AssistantTurn(content))]]
        ELSE IF toolResult.threw
        THEN /\ req' = [req EXCEPT ![r] = AfterStoreError(q, content)]
             /\ UNCHANGED <<conversationHistory, appendedBy>>
        ELSE /\ conversationHistory' = [conversationHistory EXCEPT ![s] = history]
             /\ appendedBy' = [appendedBy EXCEPT ![s] = @ \o <<r, r>>]
             /\ req' = [req EXCEPT ![r] =
                  [q EXCEPT !.i = q.i + 1,
                            !.finalResponse = withRecommendations,
                            !.replies = Append(q.replies, content),
                            !.dispatched = Append(q.dispatched,
                               [reply |-> Len(q.replies) + 1, block |-> k,
                                id |-> block.id, name |-> block.name,
                                input |-> block.input, payload |-> payload]),
                            !.appended = q.appended \o pushed,
                            !.calls = Append(q.calls,
                               [system |-> FollowUpSystem, messages |-> history])]]
     /\ store' = IF ~LoopOver(q.i) /\ HasToolUse(content)
                 THEN StoreAfterDispatch(store, block.name, block.input)
                 ELSE store
     /\ UNCHANGED <<aiAgents, lastBookContextId, clearedSince>>

\* a mutation of HistoryAfterProviderError: the turn in flight is rolled back
HistoryRolledBack(history) ==
  IF history = <<>> THEN history ELSE SubSeq(history, 1, Len(history) - 1)

\* query has no catch and no finally: the rejection leaves
\* this.conversationHistory as the pushes before the call made it
HistoryAfterProviderError(history) == history

\* the provider call request r waits for fails
ProviderError(r) ==
  /\ req[r].pc = "awaitProvider"
  /\ req' = [req EXCEPT ![r] =
               AfterProviderError(req[r], conversationHistory[req[r].sessionId])]
  /\ conversationHistory' =
       [conversationHistory EXCEPT ![req[r].sessionId] = HistoryAfterProviderError(@)]
  /\ UNCHANGED <<store, aiAgents, lastBookContextId, appendedBy, clearedSince>>

\* a mutation of ClearHistory: the clear also forgets the last-seen context
\* and registers the session
ClearHistoryAndContext(sidIn) ==
  LET s == ResolveSessionId(sidIn)
  IN /\ conversationHistory' = [conversationHistory EXCEPT ![s] = <<>>]
     /\ appendedBy' = [appendedBy EXCEPT ![s] = <<>>]
     /\ clearedSince' = [clearedSince EXCEPT ![s] = TRUE]
     /\ lastBookContextId' = [lastBookContextId EXCEPT ![s] = Null]
     /\ aiAgents' = aiAgents \cup {s}
     /\ UNCHANGED <<store, req>>

\* a mutation of ClearHistory: the histories of all agents are emptied
ClearAllHistories(sidIn) ==
  /\ conversationHistory' = [s \in SessionIds |-> <<>>]
  /\ appendedBy' = [s \in SessionIds |-> <<>>]
  /\ clearedSince' = [s \in SessionIds |-> s \in aiAgents]
  /\ UNCHANGED <<store, aiAgents, lastBookContextId, req>>

(***************************************************************************)
(* POST /api/ai/clear: aiAgents.get(sessionId)?.clearHistory()             *)
(***************************************************************************)
ClearHistory(sidIn) ==
  LET s == ResolveSessionId(sidIn)
  IN /\ IF s \in aiAgents
        THEN /\ conversationHistory' = [conversationHistory EXCEPT ![s] = <<>>]
             /\ appendedBy' = [appendedBy EXCEPT ![s] = <<>>]
             /\ clearedSince' = [clearedSince EXCEPT ![s] = TRUE]
        ELSE UNCHANGED <<conversationHistory, appendedBy, clearedSince>>
     /\ UNCHANGED <<store, aiAgents, lastBookContextId, req>>

(***************************************************************************)
(* Spec: the server as it is, requests served as they come.                *)
(***************************************************************************)
StartWithin(maxReqs, maxCalls) ==
  \E r \in 1..maxReqs, sidIn \in SessionIdInputs, bookContext \in BookContexts :
    TotalCalls < maxCalls /\ QueryStart(r, sidIn, bookContext)

ReplyWithin(maxCalls) ==
  \E r \in Reqs : \E content \in PlainReplies(r, Len(req[r].calls)) :
    /\ HasToolUse(content) => TotalCalls < maxCalls
    /\ ProviderReply(r, content)

Start == StartWithin(MaxConcReqs, MaxConcCalls)

Reply == ReplyWithin(MaxConcCalls)

Fail == \E r \in Reqs : ProviderError(r)

Clear == \E sidIn \in SessionIdInputs : ClearHistory(sidIn)

Next == Start \/ Reply \/ Fail \/ Clear

Spec == Init /\ [][Next]_vars

(***************************************************************************)
(* SpecSeq: the same server when its clients send one request at a time.   *)
(***************************************************************************)
StartSeq == InFlight = {} /\ StartWithin(MaxReqs, MaxCalls)

ReplySeq == ReplyWithin(MaxCalls)

ClearSeq == InFlight = {} /\ Clear

NextSeq == StartSeq \/ ReplySeq \/ Fail \/ ClearSeq

SpecSeq == Init /\ [][NextSeq]_vars

(***************************************************************************)
(* SpecLoop: one query, with every kind of provider reply and as many      *)
(* provider calls as the loop makes.                                       *)
(***************************************************************************)
StartLoop == \E bookContext \in BookContexts : QueryStart(1, NoSession, bookContext)

ReplyLoop == \E content \in FinalReplies \cup ToolReplies(1, Len(req[1].calls)) :
               ProviderReply(1, content)

NextLoop == StartLoop \/ ReplyLoop \/ Fail

SpecLoop == Init /\ [][NextLoop]_vars

(***************************************************************************)
(* SpecLoopLive: one query, every provider call of which is answered or    *)
(* fails in the end.  The loop makes maxIterations + 1 calls at most; the  *)
(* guard on their number keeps the model finite if it were to make more.   *)
(***************************************************************************)
\* an answer, and tool requests whose dispatch returns, misses or throws
LiveReplies(r, n) ==
  { <<TextBlock(Answer)>>,
    <<Use(r, n, 1, "search_books", [NoInput EXCEPT !.query = "dune"])>>,
    <<Use(r, n, 1, "search_books", [NoInput EXCEPT !.query = "\"" ])>>,
    <<Use(r, n, 1, "nonexistent_tool", NoInput)>> }

ReplyLive == \E content \in LiveReplies(1, Len(req[1].calls)) : ProviderReply(1, content)

Resolve == Len(req[1].calls) <= maxIterations + 1 /\ (ReplyLive \/ Fail)

NextLoopLive == StartLoop \/ Resolve

SpecLoopLive == Init /\ [][NextLoopLive]_vars /\ WF_vars(Resolve)

(***************************************************************************)
(* SpecTools: one session, one request at a time, the provider asking for  *)
(* the tools that return books and recommendations, one or two in a reply. *)
(***************************************************************************)
ToolsReplies(r, n) ==
  { <<TextBlock(Answer)>>,
    <<Use(r, n, 1, "search_books", [NoInput EXCEPT !.query = "dune"])>>,
    <<TextBlock(<<"T">>),
      Use(r, n, 2, "recommend_books", [NoInput EXCEPT !.basedOn = "genre"]),
      Use(r, n, 3, "search_books", [NoInput EXCEPT !.query = "dune"])>> }

StartTools ==
  /\ InFlight = {}
  /\ TotalCalls < MaxToolsCalls
  /\ \E r \in 1..MaxToolsReqs, bookContext \in BookContexts :
       QueryStart(r, NoSession, bookContext)

ReplyTools ==
  \E r \in Reqs : \E content \in ToolsReplies(r, Len(req[r].calls)) :
    /\ HasToolUse(content) => TotalCalls < MaxToolsCalls
    /\ ProviderReply(r, content)

NextTools == StartTools \/ ReplyTools \/ Fail \/ ClearSeq

SpecTools == Init /\ [][NextTools]_vars

(***************************************************************************)
(* SpecExtract: one query whose final text is any text of at most          *)
(* MaxTextLen characters or one of a few longer ones, after any number of  *)
(* round trips.                                                            *)
(***************************************************************************)
TextAlphabet == {"M", "m", " ", "\n", "1", ".", "X"}

ShortTexts == UNION {[1..n -> TextAlphabet] : n \in 0..MaxTextLen}

\* "Answer.\n---SUGGESTIONS---\n1. X\n2. Y\n3. Z"
RoundTripText ==
  <<"A", ".", "\n", "M", "\n", "1", ".", " ", "X", "\n", "2", ".", " ", "Y", "\n",
    "3", ".", " ", "Z">>

\* four suggestions after a blank line, a blank line between them, and a
\* second marker in the other letter case
FourSuggestionsText ==
  <<"A", "m", "\n", "\n", "1", ".", " ", "X", "\n", " ", "\n", "2", ".", "Y", "\n",
    "3", ".", " ", "Z", " ", "\n", "1", "1", ".", " ", "X", "X", "\n", "M">>

LongTexts ==
  { RoundTripText,
    FourSuggestionsText,
    \* a second marker among the suggestions, an ordinal after a space
    <<" ", "A", " ", "M", " ", "X", "\n", " ", "1", ".", " ", "Y", "\n", "M", "\n", "Z">>,
    \* no marker
    <<" ", "A", ".", "\n", "1", ".", " ", "X", "\n">> }

StartExtract == QueryStart(1, NoSession, Undefined)

ReplyExtract ==
  req[1].pc = "awaitProvider" /\
  \E content \in {<<TextBlock(t)>> : t \in ShortTexts \cup LongTexts}
                  \cup {<<TextBlock(AnswerWithSuggestions),
                          Use(1, Len(req[1].calls), 2, "get_statistics", NoInput)>>} :
    ProviderReply(1, content)

NextExtract == StartExtract \/ ReplyExtract

SpecExtract == Init /\ [][NextExtract]_vars

(***************************************************************************)
(* SpecRecommend: one query that asks for recommend_books, over every      *)
(* library of at most MaxBooks books and a few larger ones.                *)
(***************************************************************************)
\* the books of a library from their <<status, genre>> in insertion order
Shelve(entries) ==
  [k \in 1..Len(entries) |->
     [id |-> k, title |-> "t", status |-> entries[k][1], genre |-> entries[k][2]]]

SmallShelves ==
  UNION {[1..n -> {"completed", "want-to-read"} \X {"", "A", "B", "7"}] : n \in 0..MaxBooks}

Done(genres) == [k \in 1..Len(genres) |-> <<"completed", genres[k]>>]
Want(genres) == [k \in 1..Len(genres) |-> <<"want-to-read", genres[k]>>]

LargeShelves ==
  { \* completed {A,A,A,B,B,C} and want-to-read {A,B,C,D}, in three orders
    Done(<<"A", "A", "A", "B", "B", "C">>) \o Want(<<"A", "B", "C", "D">>),
    Want(<<"D", "C", "B", "A">>) \o Done(<<"C", "B", "A", "B", "A", "A">>),
    Done(<<"B", "A">>) \o Want(<<"C", "D">>) \o Done(<<"C", "A", "B", "A">>)
      \o Want(<<"A", "B">>),
    \* four genres with one completed book each
    Done(<<"D", "C", "B", "A">>) \o Want(<<"D", "A">>),
    Done(<<"C", "B", "A", "B">>) \o Want(<<"C", "A">>) \o Done(<<"D", "D">>)
      \o Want(<<"D">>),
    \* four genres with one completed book each, one an array index
    Done(<<"7", "C", "B", "A">>) \o Want(<<"C", "7">>),
    Done(<<"10", "7", "A">>) \o Want(<<"A", "10">>),
    \* more than 5 want-to-read books of the favourite genre
    Done(<<"A", "">>) \o Want(<<"A", "A", "", "A", "B", "A", "A", "A">>) }

Libraries == {[Library EXCEPT !.books = Shelve(e)] : e \in SmallShelves \cup LargeShelves}

InitRecommend ==
  /\ store \in Libraries
  /\ aiAgents = {}
  /\ conversationHistory = [s \in SessionIds |-> <<>>]
  /\ lastBookContextId = [s \in SessionIds |-> Null]
  /\ req = [r \in Reqs |-> IdleReq]
  /\ appendedBy = [s \in SessionIds |-> <<>>]
  /\ clearedSince = [s \in SessionIds |-> FALSE]

\* the provider asks for recommend_books on the first call of the query
RecommendReplies(r, n) ==
  {<<TextBlock(Answer)>>}
  \cup IF n > 1 THEN {}
       ELSE {<<Use(r, n, 1, "recommend_books", [NoInput EXCEPT !.basedOn = "genre"])>>}

StartRecommend == QueryStart(1, NoSession, Undefined)

ReplyRecommend ==
  \E content \in RecommendReplies(1, Len(req[1].calls)) : ProviderReply(1, content)

NextRecommend == StartRecommend \/ ReplyRecommend

SpecRecommend == InitRecommend /\ [][NextRecommend]_vars

(***************************************************************************)
(* Vocabulary of the properties.                                           *)
(***************************************************************************)
Started(r) == req[r].pc # "idle"

\* the query served before b on b's session, 0 when b is the first
PrevOnSession(b) ==
  LET before == {a \in 1..(b - 1) : req[a].sessionId = req[b].sessionId}
  IN IF before = {} THEN 0 ELSE SetMax(before)

\* the history handed to the provider on the first call of b
FirstCallMessages(b) == req[b].calls[1].messages

IsBook(bookContext) == bookContext # Undefined

EndsWith(seq, suffix) ==
  /\ Len(suffix) <= Len(seq)
  /\ SubSeq(seq, Len(seq) - Len(suffix) + 1, Len(seq)) = suffix

\* the replies of r that the loop examined (a reply that arrives when
\* i = maxIterations is not examined)
Examined(r) ==
  {n \in 1..Len(req[r].replies) : n <= maxIterations}

FirstToolUse(content) == content[SetMin(ToolUseIndexes(content))]

DispatchesOf(r, n) == {d \in 1..Len(req[r].dispatched) : req[r].dispatched[d].reply = n}

StoreFailedAt(r, n) ==
  req[r].pc = "failed" /\ req[r].error = "store" /\ n = Len(req[r].replies)

(***************************************************************************)
(* C1.  Requests served one at a time: when query b follows query a on a   *)
(* session, a with book context Book1 and b with book context Book2 of     *)
(* another id, the history handed to the provider on b's first call is     *)
(* the single user turn of b.                                              *)
(***************************************************************************)
C1_ContextSwitchClearsHistory ==
  \A b \in Reqs :
    LET a == PrevOnSession(b)
    IN (/\ Started(b) /\ a # 0
        /\ IsBook(req[a].bookContext) /\ IsBook(req[b].bookContext)
        /\ req[a].bookContext # req[b].bookContext)
       => FirstCallMessages(b) = <<UserTurn(b)>>

\* a answered after a tool round trip with Book1, then b asked with Book2
C1_Witness ==
  \E b \in Reqs :
    LET a == PrevOnSession(b)
    IN /\ Started(b) /\ a # 0
       /\ IsBook(req[a].bookContext) /\ IsBook(req[b].bookContext)
       /\ req[a].bookContext # req[b].bookContext
       /\ req[a].pc = "done" /\ Len(req[a].appended) >= 4
       /\ req[a].afterClear = FALSE /\ req[b].afterClear = FALSE

(***************************************************************************)
(* C2.  Requests served one at a time: when query b follows query a on a   *)
(* session and exactly one of the two has a book context, the history is   *)
(* cleared before b's user turn is pushed: b's first call gets the single  *)
(* user turn of b.                                                         *)
(***************************************************************************)
C2_NoneSomeIsASwitch ==
  \A b \in Reqs :
    LET a == PrevOnSession(b)
    IN (/\ Started(b) /\ a # 0
        /\ IsBook(req[a].bookContext) # IsBook(req[b].bookContext))
       => FirstCallMessages(b) = <<UserTurn(b)>>

\* none, then a book, then none again, on one session, each answered
C2_Witness ==
  \E c \in Reqs :
    LET b == PrevOnSession(c)
        a == IF b = 0 THEN 0 ELSE PrevOnSession(b)
    IN /\ Started(c) /\ b # 0 /\ a # 0
       /\ ~IsBook(req[a].bookContext) /\ IsBook(req[b].bookContext)
       /\ ~IsBook(req[c].bookContext)
       /\ req[a].pc = "done" /\ req[b].pc = "done"
       /\ Len(req[a].appended) >= 2 /\ Len(req[b].appended) >= 2
       /\ ~req[b].afterClear /\ ~req[c].afterClear

(***************************************************************************)
(* C3.  Requests served one at a time: when query b follows query a on a   *)
(* session with the same context identity (the same book id, or no         *)
(* context both times) and no clear was served in between, the history     *)
(* handed to the provider on b's first call ends with the turns a pushed,  *)
(* in order, followed by b's user turn.                                    *)
(***************************************************************************)
C3_HistoryKeptWithinContext ==
  \A b \in Reqs :
    LET a == PrevOnSession(b)
    IN (/\ Started(b) /\ a # 0
        /\ req[a].bookContext = req[b].bookContext
        /\ ~req[b].afterClear)
       => EndsWith(FirstCallMessages(b), req[a].appended \o <<UserTurn(b)>>)

(***************************************************************************)
(* C4.  In every state, under every interleaving of requests, each turn    *)
(* of a session's history was pushed by a query whose context identity is  *)
(* the session's lastBookContextId.                                        *)
(***************************************************************************)
C4_NoStaleTurnInHistory ==
  \A s \in SessionIds : \A k \in 1..Len(appendedBy[s]) :
    OrNull(OptId(req[appendedBy[s][k]].bookContext)) = lastBookContextId[s]

(***************************************************************************)
(* C5.  In every state, under every interleaving of requests, the turns    *)
(* each query pushed on a session's history form one contiguous block.     *)
(***************************************************************************)
C5_TurnsOfAQueryContiguous ==
  \A s \in SessionIds :
    \A k1, k2, k3 \in 1..Len(appendedBy[s]) :
      (k1 < k2 /\ k2 < k3 /\ appendedBy[s][k1] = appendedBy[s][k3])
      => appendedBy[s][k2] = appendedBy[s][k1]

(***************************************************************************)
(* C6.  No query makes more than 5 provider calls, the first call and the  *)
(* follow-up calls together.                                               *)
(***************************************************************************)
C6_AtMostFiveProviderCalls ==
  \A r \in Reqs : Len(req[r].calls) <= maxIterations

(***************************************************************************)
(* C7.  For every examined reply with two or more tool_use blocks: one     *)
(* dispatch is made for it, for its first tool_use block; every follow-up  *)
(* call comes after one dispatch; and no dispatch at all is for a block    *)
(* other than the first tool_use block of the reply it answers.            *)
(***************************************************************************)
C7_OnlyFirstToolUseDispatched ==
  \A r \in Reqs :
    /\ Started(r) => Len(req[r].calls) = Len(req[r].dispatched) + 1
    /\ \A d \in 1..Len(req[r].dispatched) :
         /\ req[r].dispatched[d].reply = d
         /\ req[r].dispatched[d].id = FirstToolUse(req[r].replies[d]).id
    /\ \A n \in Examined(r) :
         Cardinality(ToolUseIndexes(req[r].replies[n])) >= 2
         => /\ Cardinality(DispatchesOf(r, n)) = 1 \/ StoreFailedAt(r, n)
            /\ \A d \in DispatchesOf(r, n) :
                 /\ req[r].dispatched[d].id = FirstToolUse(req[r].replies[n]).id
                 /\ req[r].dispatched[d].name = FirstToolUse(req[r].replies[n]).name

\* a reply with several tool_use blocks was dispatched and the query went on
\* to its answer
C7_Witness ==
  \E r \in Reqs : \E n \in Examined(r) :
    /\ Cardinality(ToolUseIndexes(req[r].replies[n])) >= 2
    /\ DispatchesOf(r, n) # {}
    /\ Len(req[r].calls) > n
    /\ req[r].pc = "done"

(***************************************************************************)
(* C8.  For every examined reply whose dispatched block names no tool of   *)
(* the six, or names get_book_details with an id the store does not hold:  *)
(* the dispatch returns the payload {error: 'Unknown tool'} or             *)
(* {error: 'Book not found'}, the query does not fail on it, the payload   *)
(* is pushed as the tool result and is the last turn of the history        *)
(* handed to the next provider call.                                       *)
(***************************************************************************)
IsDispatchMiss(block) ==
  \/ block.name \notin ToolNames
  \/ block.name = "get_book_details" /\ getBookById(store, block.input.bookId) = <<>>

MissPayload(block) ==
  IF block.name \notin ToolNames THEN ErrorPayload("Unknown tool")
  ELSE ErrorPayload("Book not found")

C8_DispatchMissNeverAborts ==
  \A r \in Reqs : \A n \in Examined(r) :
    LET content == req[r].replies[n]
        block == FirstToolUse(content)
    IN (HasToolUse(content) /\ IsDispatchMiss(block))
       => /\ ~StoreFailedAt(r, n)
          /\ \E d \in DispatchesOf(r, n) :
               /\ req[r].dispatched[d].id = block.id
               /\ req[r].dispatched[d].payload = MissPayload(block)
          /\ Len(req[r].calls) > n
          /\ EndsWith(req[r].calls[n + 1].messages,
                      <<AssistantTurn(content), ToolResultTurn(block.id, MissPayload(block))>>)

\* one query met both kinds of miss and still returned
C8_Witness ==
  \E r \in Reqs :
    /\ req[r].pc = "done"
    /\ \E d \in 1..Len(req[r].dispatched) :
         req[r].dispatched[d].payload = ErrorPayload("Unknown tool")
    /\ \E d \in 1..Len(req[r].dispatched) :
         req[r].dispatched[d].payload = ErrorPayload("Book not found")

(***************************************************************************)
(* C9.  For every examined reply whose dispatched block is a search the    *)
(* store rejects: the dispatch yields a payload with an error field, and   *)
(* the query does not fail on it.                                          *)
(***************************************************************************)
C9_StoreFailureRecoveredLocally ==
  \A r \in Reqs : \A n \in Examined(r) :
    LET content == req[r].replies[n]
        block == FirstToolUse(content)
    IN (/\ HasToolUse(content)
        /\ block.name = "search_books"
        /\ FtsSyntaxError(block.input.query))
       => /\ ~StoreFailedAt(r, n)
          /\ \E d \in DispatchesOf(r, n) : "error" \in req[r].dispatched[d].payload.fields

(***************************************************************************)
(* C10.  Once a provider call of a query has failed, the query has ended   *)
(* with status 500 and the provider's error, and it has made no provider   *)
(* call and no dispatch since.                                             *)
(***************************************************************************)
C10_ProviderErrorEndsQuery ==
  \A r \in Reqs :
    req[r].failedCalls > 0
    => /\ req[r].pc = "failed" /\ req[r].status = 500 /\ req[r].error = "provider"
       /\ req[r].failedCalls = 1
       /\ Len(req[r].calls) = req[r].callsAtFailure
       /\ Len(req[r].dispatched) = req[r].dispatchedAtFailure

\* a follow-up call failed, after a dispatch
C10_Witness ==
  \E r \in Reqs :
    /\ req[r].failedCalls = 1 /\ req[r].pc = "failed"
    /\ Len(req[r].calls) >= 2 /\ Len(req[r].dispatched) >= 1

(***************************************************************************)
(* C11.  When a provider call of a query has failed, the session's history *)
(* is the history that was handed to that call: the user turn of the query *)
(* and the assistant and tool-result turns of its earlier round trips,     *)
(* nothing more and nothing less.                                          *)
(***************************************************************************)
C11_ProviderErrorLeavesHistory ==
  \A r \in Reqs :
    (req[r].pc = "failed" /\ req[r].error = "provider")
    => /\ conversationHistory[req[r].sessionId] = req[r].calls[Len(req[r].calls)].messages
       /\ conversationHistory[req[r].sessionId] = req[r].appended
       /\ Len(req[r].appended) = 1 + 2 * Len(req[r].dispatched)

\* a follow-up call failed after two round trips
C11_Witness ==
  \E r \in Reqs :
    /\ req[r].pc = "failed" /\ req[r].error = "provider"
    /\ Len(req[r].dispatched) = 2
    /\ Len(conversationHistory[req[r].sessionId]) = 5

\* the text of the last text block among the replies of a query, '' if none
RECURSIVE LastTextProduced(_)
LastTextProduced(replies) ==
  IF replies = <<>> THEN <<>>
  ELSE LastText(replies[Len(replies)],
                LastTextProduced(SubSeq(replies, 1, Len(replies) - 1)))

\* request r left the loop because i reached maxIterations
HitCeiling(r) == req[r].pc = "done" /\ req[r].i >= maxIterations

(***************************************************************************)
(* C12.  A query that hits the iteration ceiling answers without raising,  *)
(* and the message of its response is the text the provider produced last  *)
(* during the query (its suggestions block taken off), empty only when the *)
(* provider produced no text.                                              *)
(***************************************************************************)
C12_CeilingReturnsLastText ==
  \A r \in Reqs :
    HitCeiling(r)
    => /\ req[r].status = 200
       /\ req[r].finalResponse.message =
            extractSuggestions([EmptyResponse EXCEPT
              !.message = LastTextProduced(req[r].replies)]).message

\* the last dispatch of request r whose payload has the field, 0 when none has
LastDispatchWith(r, field) ==
  LET with == {d \in 1..Len(req[r].dispatched) : field \in req[r].dispatched[d].payload.fields}
  IN IF with = {} THEN 0 ELSE SetMax(with)

(***************************************************************************)
(* C13.  At every point of a query, the books of its response are the      *)
(* books of the last dispatch whose payload had a books field, and its     *)
(* recommendations those of the last dispatch whose payload had a          *)
(* recommendations field: a later payload replaces an earlier one, is not  *)
(* appended to it, and a payload without the field changes nothing.        *)
(***************************************************************************)
C13_BooksLastWriteWins ==
  \A r \in Reqs :
    Started(r)
    => LET b == LastDispatchWith(r, "books")
           c == LastDispatchWith(r, "recommendations")
       IN /\ b # 0 => req[r].finalResponse.books = req[r].dispatched[b].payload.books
          /\ c # 0 => /\ req[r].finalResponse.hasRecommendations
                      /\ req[r].finalResponse.recommendations =
                           req[r].dispatched[c].payload.recommendations

\* two dispatches returned different books, a third returned none, and the
\* response has the books of the second
C13_Witness ==
  \E r \in Reqs :
    /\ req[r].pc = "done"
    /\ Len(req[r].dispatched) = 3
    /\ LastDispatchWith(r, "books") = 2
    /\ "books" \in req[r].dispatched[1].payload.fields
    /\ req[r].dispatched[1].payload.books # req[r].dispatched[2].payload.books
    /\ req[r].dispatched[1].payload.books # <<>>
    /\ req[r].finalResponse.books = req[r].dispatched[2].payload.books

(***************************************************************************)
(* C14.  The books and the recommendations of a response come from the     *)
(* dispatches of its own query only: they are empty (recommendations       *)
(* absent) as long as no dispatch of the query returned the field, and     *)
(* otherwise a payload of one of its dispatches, whatever the earlier      *)
(* queries of the session returned.                                        *)
(***************************************************************************)
C14_BooksOfThisQueryOnly ==
  \A r \in Reqs :
    Started(r)
    => /\ LastDispatchWith(r, "books") = 0 => req[r].finalResponse.books = <<>>
       /\ LastDispatchWith(r, "recommendations") = 0
            => /\ ~req[r].finalResponse.hasRecommendations
               /\ req[r].finalResponse.recommendations = <<>>
       /\ \/ req[r].finalResponse.books = <<>>
          \/ \E d \in 1..Len(req[r].dispatched) :
               /\ "books" \in req[r].dispatched[d].payload.fields
               /\ req[r].finalResponse.books = req[r].dispatched[d].payload.books

\* a query without dispatch answered with no book and no recommendation
\* after a query of the same session that answered with both
C14_Witness ==
  \E r \in Reqs :
    /\ req[r].pc = "done"
    /\ req[r].dispatched = <<>>
    /\ req[r].finalResponse.books = <<>>
    /\ ~req[r].finalResponse.hasRecommendations
    /\ PrevOnSession(r) # 0
    /\ req[PrevOnSession(r)].pc = "done"
    /\ req[PrevOnSession(r)].finalResponse.books # <<>>
    /\ req[PrevOnSession(r)].finalResponse.recommendations # <<>>
    /\ ~ContextChanged(OptId(req[r].bookContext),
                       OrNull(OptId(req[PrevOnSession(r)].bookContext)))

(***************************************************************************)
(* What the extractor is to return, said over positions of the text.       *)
(***************************************************************************)
\* the n-th smallest element of a set of numbers
Nth(S, n) == CHOOSE x \in S : Cardinality({y \in S : y < x}) = n - 1

MarkerPositions(t) == {k \in 1..Len(t) : t[k] = "M" \/ t[k] = "m"}

InkPositions(t) == {k \in 1..Len(t) : t[k] # " " /\ t[k] # "\n"}

\* t without its leading and trailing whitespace
Trimmed(t) ==
  IF InkPositions(t) = {} THEN <<>>
  ELSE SubSeq(t, SetMin(InkPositions(t)), SetMax(InkPositions(t)))

\* t without its trailing whitespace
TrimmedRight(t) ==
  IF InkPositions(t) = {} THEN <<>> ELSE SubSeq(t, 1, SetMax(InkPositions(t)))

\* the lines of t
LinesOf(t) ==
  LET breaks == {0} \cup {k \in 1..Len(t) : t[k] = "\n"}
      end(j) == IF j = Cardinality(breaks) THEN Len(t) ELSE Nth(breaks, j + 1) - 1
  IN [j \in 1..Cardinality(breaks) |-> SubSeq(t, Nth(breaks, j) + 1, end(j))]

\* line without a leading ordinal: digits, at least one, and a dot
WithoutOrdinal(line) ==
  LET digits == Cardinality({k \in 1..Len(line) :
                               \A i \in 1..k : line[i] \in {"1", "2", "3"}})
  IN IF digits >= 1 /\ digits < Len(line) /\ line[digits + 1] = "."
     THEN SubSeq(line, digits + 2, Len(line))
     ELSE line

\* the first at most 3 lines after the first marker of t that are not blank
\* once their ordinal is removed, without ordinal and outer whitespace
SuggestionsAfterMarker(t) ==
  LET lines == LinesOf(Trimmed(SubSeq(t, SetMin(MarkerPositions(t)) + 1, Len(t))))
      clean == [j \in 1..Len(lines) |-> Trimmed(WithoutOrdinal(lines[j]))]
      kept == {j \in 1..Len(lines) : clean[j] # <<>>}
      n == IF Cardinality(kept) < 3 THEN Cardinality(kept) ELSE 3
  IN [i \in 1..n |-> clean[Nth(kept, i)]]

BeforeMarker(t) == SubSeq(t, 1, SetMin(MarkerPositions(t)) - 1)

\* request r was answered from the text of its last reply
AnsweredFromText(r) ==
  /\ req[r].pc = "done"
  /\ req[r].i < maxIterations
  /\ Len(req[r].replies[Len(req[r].replies)]) = 1

\* that text
FinalText(r) == req[r].replies[Len(req[r].replies)][1].text

(***************************************************************************)
(* C15, as stated.  A final text with the marker gives as suggestions the  *)
(* first at most 3 non-blank lines after the first marker, each without    *)
(* its ordinal, and as message the text before the first marker with its   *)
(* trailing whitespace trimmed.                                            *)
(***************************************************************************)
C15_MessageTrimmedRight ==
  \A r \in Reqs :
    (AnsweredFromText(r) /\ MarkerPositions(FinalText(r)) # {})
    => /\ req[r].finalResponse.suggestions = SuggestionsAfterMarker(FinalText(r))
       /\ req[r].finalResponse.message = TrimmedRight(BeforeMarker(FinalText(r)))

(***************************************************************************)
(* C15, amended.  A final text with the marker gives as message the text   *)
(* before the first marker without its leading and trailing whitespace,    *)
(* and as suggestions the first at most 3 lines of the trimmed text after  *)
(* the first marker that are not blank once a leading ordinal (digits, a   *)
(* dot) and the outer whitespace are removed, each in that cleaned form.   *)
(***************************************************************************)
C15_ExtractWithMarker ==
  \A r \in Reqs :
    (AnsweredFromText(r) /\ MarkerPositions(FinalText(r)) # {})
    => /\ req[r].finalResponse.suggestions = SuggestionsAfterMarker(FinalText(r))
       /\ req[r].finalResponse.message = Trimmed(BeforeMarker(FinalText(r)))

\* the round trip of "Answer.\n---SUGGESTIONS---\n1. X\n2. Y\n3. Z"
C15_Witness ==
  \E r \in Reqs :
    /\ AnsweredFromText(r)
    /\ FinalText(r) = RoundTripText
    /\ req[r].finalResponse.message = <<"A", ".">>
    /\ req[r].finalResponse.suggestions = << <<"X">>, <<"Y">>, <<"Z">> >>

(***************************************************************************)
(* C16.  A final text without the marker is the message of the response,   *)
(* character for character, and the response has no suggestions.           *)
(***************************************************************************)
C16_NoMarkerUnchanged ==
  \A r \in Reqs :
    (AnsweredFromText(r) /\ MarkerPositions(FinalText(r)) = {})
    => /\ req[r].finalResponse.message = FinalText(r)
       /\ req[r].finalResponse.suggestions = <<>>

\* a text without marker that begins and ends with whitespace
C16_Witness ==
  \E r \in Reqs :
    /\ AnsweredFromText(r)
    /\ FinalText(r) = <<" ", "A", ".", "\n", "1", ".", " ", "X", "\n">>
    /\ req[r].finalResponse.message = FinalText(r)
    /\ req[r].finalResponse.suggestions = <<>>

(***************************************************************************)
(* C17.  Every response query returns has a message without any marker,    *)
(* in either letter case, and at most 3 suggestions.                       *)
(***************************************************************************)
C17_NoMarkerInMessage ==
  \A r \in Reqs :
    req[r].pc = "done"
    => /\ MarkerPositions(req[r].finalResponse.message) = {}
       /\ Len(req[r].finalResponse.suggestions) <= 3

\* a text with two markers, in two cases, and more than 3 lines after the first
C17_Witness ==
  \E r \in Reqs :
    /\ AnsweredFromText(r)
    /\ FinalText(r) = FourSuggestionsText
    /\ Cardinality(MarkerPositions(FinalText(r))) = 2
    /\ req[r].finalResponse.suggestions = << <<"X">>, <<"Y">>, <<"Z">> >>
    /\ req[r].finalResponse.message = <<"A">>

(***************************************************************************)
(* What recommend_books is to return, said over the books the store        *)
(* returns for a status (newest first).                                    *)
(***************************************************************************)
StoreReturns(status) ==
  LET at == {k \in 1..Len(store.books) : store.books[k].status = status}
  IN [i \in 1..Cardinality(at) |-> store.books[Nth(at, Cardinality(at) + 1 - i)]]

\* number of completed books of genre g, and the first of them
Occurrences(g) ==
  Cardinality({k \in 1..Len(StoreReturns("completed")) : StoreReturns("completed")[k].genre = g})

FirstOccurrence(g) ==
  SetMin({k \in 1..Len(StoreReturns("completed")) : StoreReturns("completed")[k].genre = g})

CompletedGenres ==
  {StoreReturns("completed")[k].genre : k \in 1..Len(StoreReturns("completed"))} \ {""}

\* genre f comes before genre g: more occurrences, or as many and seen first
RanksBefore(f, g) ==
  \/ Occurrences(f) > Occurrences(g)
  \/ Occurrences(f) = Occurrences(g) /\ FirstOccurrence(f) < FirstOccurrence(g)

\* the want-to-read books of the genres favs, as the store returns them, the
\* first 5 of them
WantToReadOf(favs) ==
  LET want == StoreReturns("want-to-read")
      kept == {k \in 1..Len(want) : want[k].genre # "" /\ want[k].genre \in favs}
      n == IF Cardinality(kept) < 5 THEN Cardinality(kept) ELSE 5
  IN [i \in 1..n |-> want[Nth(kept, i)]]

\* the payloads recommend_books returned to request r
RecommendPayloads(r) ==
  {req[r].dispatched[d].payload :
     d \in {e \in 1..Len(req[r].dispatched) : req[r].dispatched[e].name = "recommend_books"}}

(***************************************************************************)
(* C18.  Whatever the library holds, recommend_books returns as            *)
(* favoriteGenres the at most 3 genres that occur most among the completed *)
(* books with a genre, highest count first and genres of equal count in    *)
(* the order they were first seen, and as recommendations the first 5      *)
(* want-to-read books, in store order, whose genre is one of them; a book  *)
(* without genre is neither counted nor recommended.                       *)
(***************************************************************************)
C18_TopThreeGenresFirstSeen ==
  \A r \in Reqs : \A p \in RecommendPayloads(r) :
    LET favs == p.favoriteGenres
    IN /\ Len(favs) = (IF Cardinality(CompletedGenres) < 3
                       THEN Cardinality(CompletedGenres) ELSE 3)
       /\ \A i \in 1..Len(favs) : favs[i] \in CompletedGenres
       /\ \A i, j \in 1..Len(favs) : i < j => RanksBefore(favs[i], favs[j])
       /\ \A g \in CompletedGenres \ SeqRange(favs) :
            \A i \in 1..Len(favs) : RanksBefore(favs[i], g)
       /\ p.recommendations = WantToReadOf(SeqRange(favs))

\* the library has completed books of genres {A,A,A,B,B,C} and want-to-read
\* books of genres {A,B,C,D}
CompositionExample ==
  LET n(status, g) == Cardinality({k \in 1..Len(store.books) :
                         store.books[k].status = status /\ store.books[k].genre = g})
  IN /\ Len(store.books) = 10
     /\ n("completed", "A") = 3 /\ n("completed", "B") = 2 /\ n("completed", "C") = 1
     /\ \A g \in {"A", "B", "C", "D"} : n("want-to-read", g) = 1

(***************************************************************************)
(* C19, as stated.  With completed books of genres {A,A,A,B,B,C} and       *)
(* want-to-read books of genres {A,B,C,D}, recommend_books returns only    *)
(* want-to-read books of genre A or B, at most 5.                          *)
(***************************************************************************)
C19_OnlyTopTwoGenres ==
  CompositionExample
  => \A r \in Reqs : \A p \in RecommendPayloads(r) :
       /\ Len(p.recommendations) <= 5
       /\ \A k \in 1..Len(p.recommendations) :
            /\ p.recommendations[k].status = "want-to-read"
            /\ p.recommendations[k].genre \in {"A", "B"}

(***************************************************************************)
(* C19, amended.  With that library recommend_books reports the favourite  *)
(* genres A, B, C, in this order, and returns the three want-to-read books *)
(* of genre A, B or C, in store order, and not the one of genre D.         *)
(***************************************************************************)
C19_TopThreeGenres ==
  CompositionExample
  => \A r \in Reqs : \A p \in RecommendPayloads(r) :
       /\ p.favoriteGenres = <<"A", "B", "C">>
       /\ p.recommendations = WantToReadOf({"A", "B", "C"})
       /\ Len(p.recommendations) = 3
       /\ \A k \in 1..3 : p.recommendations[k].genre # "D"

\* the query is answered with the recommendations of that library, the book
\* of genre C among them
C19_Witness ==
  /\ CompositionExample
  /\ \E r \in Reqs :
       /\ req[r].pc = "done"
       /\ RecommendPayloads(r) # {}
       /\ Len(req[r].finalResponse.recommendations) = 3
       /\ \E k \in 1..3 : req[r].finalResponse.recommendations[k].genre = "C"

(***************************************************************************)
(* C20.  A clear of a session that exists empties the history of that      *)
(* session and changes neither its last-seen context id nor anything of    *)
(* another session; a clear of a session id that does not exist creates no *)
(* session and changes nothing.                                            *)
(***************************************************************************)
C20_ExplicitClear ==
  [][\A sidIn \in SessionIdInputs :
       ClearHistory(sidIn)
       => LET s == ResolveSessionId(sidIn)
          IN /\ aiAgents' = aiAgents
             /\ lastBookContextId' = lastBookContextId
             /\ req' = req /\ store' = store
             /\ \A t \in SessionIds \ {s} : conversationHistory'[t] = conversationHistory[t]
             /\ IF s \in aiAgents
                THEN conversationHistory'[s] = <<>>
                ELSE conversationHistory'[s] = conversationHistory[s]]_vars

\* a session that answered a query under a book context has been cleared:
\* its history is empty and its context id is still that book
C20_Witness ==
  \E s \in SessionIds :
    /\ s \in aiAgents
    /\ clearedSince[s]
    /\ conversationHistory[s] = <<>>
    /\ lastBookContextId[s] # Null
    /\ \E r \in Reqs : /\ req[r].sessionId = s
                       /\ req[r].pc = "done"
                       /\ OptId(req[r].bookContext) = lastBookContextId[s]

\* the query started last on session s, 0 when there is none
LastOnSession(s) ==
  LET on == {a \in Reqs : Started(a) /\ req[a].sessionId = s}
  IN IF on = {} THEN 0 ELSE SetMax(on)

\* the history of its session when query a, served alone, is over
HistoryLeftBy(a) ==
  SubSeq(FirstCallMessages(a), 1, Len(FirstCallMessages(a)) - 1) \o req[a].appended

\* the registry and the sessions agree with the queries served so far
OneSessionPerId ==
  /\ aiAgents = {req[r].sessionId : r \in {q \in Reqs : Started(q)}}
  /\ \A s \in SessionIds \ aiAgents :
       conversationHistory[s] = <<>> /\ lastBookContextId[s] = Null
  /\ \A s \in aiAgents :
       lastBookContextId[s] = OrNull(OptId(req[LastOnSession(s)].bookContext))
  /\ \A b \in Reqs :
       Started(b)
       => LET a == PrevOnSession(b)
          IN FirstCallMessages(b) =
               IF a = 0 THEN <<UserTurn(b)>>
               ELSE IF \/ req[b].afterClear
                       \/ OptId(req[b].bookContext) # OrNull(OptId(req[a].bookContext))
               THEN <<UserTurn(b)>>
               ELSE HistoryLeftBy(a) \o <<UserTurn(b)>>

\* a query is served on the session of its id, 'default' when it has none,
\* and registers that id only
QueryUsesItsSession ==
  \A r \in Reqs, sidIn \in SessionIdInputs, bookContext \in BookContexts :
    QueryStart(r, sidIn, bookContext)
    => /\ req'[r].sessionId = (IF sidIn \in SessionIds THEN sidIn ELSE "default")
       /\ aiAgents' = aiAgents \cup {req'[r].sessionId}

(***************************************************************************)
(* C21.  Requests served one at a time: the registry holds the session ids *)
(* queried so far and one session for each; a session that no query has    *)
(* addressed has no history and no last-seen context, the first query on   *)
(* an id starts from an empty history, and every later query on that id,   *)
(* or without id on 'default', finds the last-seen context and the history *)
(* the query before it left on that session.                               *)
(***************************************************************************)
C21_OneSessionPerId == []OneSessionPerId /\ [][QueryUsesItsSession]_vars

\* the third query of a session with one book context is handed the turns
\* of the two before it
C21_Witness ==
  \E b \in Reqs :
    LET a == PrevOnSession(b)
    IN /\ Started(b) /\ a # 0 /\ PrevOnSession(a) # 0
       /\ req[b].sessionId = "default"
       /\ IsBook(req[b].bookContext)
       /\ FirstCallMessages(b) = HistoryLeftBy(a) \o <<UserTurn(b)>>
       /\ Len(FirstCallMessages(b)) >= 5

\* the step changes neither history nor last-seen context id of a session
\* other than s
OthersUntouched(s) ==
  \A t \in SessionIds \ {s} :
    /\ conversationHistory'[t] = conversationHistory[t]
    /\ lastBookContextId'[t] = lastBookContextId[t]

(***************************************************************************)
(* C22.  In every interleaving of requests, each step of a query on        *)
(* session s (its start, the handling of a provider reply, a provider      *)
(* failure) and each clear of session s leaves the history and the         *)
(* last-seen context id of every other session as they were.               *)
(***************************************************************************)
C22_OtherSessionsUntouched ==
  [][/\ \A r \in Reqs, sidIn \in SessionIdInputs, bookContext \in BookContexts :
          QueryStart(r, sidIn, bookContext) => OthersUntouched(ResolveSessionId(sidIn))
     /\ \A r \in Reqs :
          (\/ ProviderError(r)
           \/ \E content \in PlainReplies(r, Len(req[r].calls)) : ProviderReply(r, content))
          => OthersUntouched(req[r].sessionId)
     /\ \A sidIn \in SessionIdInputs :
          ClearHistory(sidIn) => OthersUntouched(ResolveSessionId(sidIn))]_vars

\* two sessions under different book contexts: one was cleared while the
\* query of the other was suspended, and the other still has its turn
C22_Witness ==
  \E s, t \in SessionIds :
    /\ s # t /\ {s, t} \subseteq aiAgents
    /\ clearedSince[s] /\ conversationHistory[s] = <<>>
    /\ conversationHistory[t] # <<>>
    /\ lastBookContextId[t] # Null /\ lastBookContextId[s] # lastBookContextId[t]
    /\ \E r \in InFlight : req[r].sessionId = t

(***************************************************************************)
(* C23.  The handling of a provider reply that requests a tool, one of the *)
(* six or an unknown one, with any arguments, leaves the books, the notes  *)
(* and the saved Q&A of the Library Store as they were.                    *)
(***************************************************************************)
C23_DispatchLeavesStore ==
  [][\A content \in ToolReplies(1, Len(req[1].calls)) :
       ProviderReply(1, content)
       => /\ store'.books = store.books
          /\ store'.notes = store.notes
          /\ store'.savedQA = store.savedQA]_vars

\* get_notes, recommend_books and an unknown tool were dispatched, and the
\* store still has the books and the notes it began with
C23_Witness ==
  /\ store = Library /\ store.notes # <<>>
  /\ \E r \in Reqs :
       {"get_notes", "recommend_books", "nonexistent_tool"}
         \subseteq {req[r].dispatched[d].name : d \in 1..Len(req[r].dispatched)}

\* request r ended on a reply that requests no tool
EndedWithoutTool(r) == req[r].pc = "done" /\ req[r].i < maxIterations

FinalReply(r) == req[r].replies[Len(req[r].replies)]

\* the text of the last text block of content, '' when it has none
TextOfReply(content) ==
  LET texts == {k \in 1..Len(content) : content[k].type = "text"}
  IN IF texts = {} THEN <<>> ELSE content[SetMax(texts)].text

\* text without its suggestions block
Visible(text) ==
  IF MarkerPositions(text) = {} THEN text ELSE Trimmed(BeforeMarker(text))

(***************************************************************************)
(* C24.  When a query has ended on a reply that requests no tool, the last *)
(* turn of the history is the assistant turn with the content of that      *)
(* reply, and the message is the text of that reply (of its last text      *)
(* block, without the suggestions block): nothing of the text of the       *)
(* earlier replies of the query is in it.                                  *)
(***************************************************************************)
C24_MessageFromFinalReply ==
  \A r \in Reqs :
    EndedWithoutTool(r)
    => LET history == conversationHistory[req[r].sessionId]
       IN /\ ~HasToolUse(FinalReply(r))
          /\ history # <<>>
          /\ history[Len(history)] = AssistantTurn(FinalReply(r))
          /\ req[r].finalResponse.message = Visible(TextOfReply(FinalReply(r)))

\* two replies with the text T and a tool request, then a reply with the
\* texts A and B: the message is B
C24_Witness ==
  \E r \in Reqs :
    /\ EndedWithoutTool(r)
    /\ Len(req[r].replies) = 3
    /\ \A n \in 1..2 : TextOfReply(req[r].replies[n]) = <<"T">>
    /\ Len(FinalReply(r)) = 2
    /\ req[r].finalResponse.message = <<"B">>

(***************************************************************************)
(* C25.  Requests served one at a time: in every state, each tool-result   *)
(* turn of a history comes right after an assistant turn that requests a   *)
(* tool, and carries the id of the first tool-request block of that turn.  *)
(***************************************************************************)
C25_ToolResultFollowsItsRequest ==
  \A s \in SessionIds : \A k \in 1..Len(conversationHistory[s]) :
    LET turn == conversationHistory[s][k]
    IN IsToolResult(turn)
       => /\ k > 1
          /\ conversationHistory[s][k - 1].role = "assistant"
          /\ HasToolUse(conversationHistory[s][k - 1].blocks)
          /\ Len(turn.blocks) = 1
          /\ turn.blocks[1].tool_use_id =
               FirstToolUse(conversationHistory[s][k - 1].blocks).id

\* the history of a second query holds a tool result of the first, which
\* failed, and one of its own for a reply with two tool requests
C25_Witness ==
  \E s \in SessionIds : \E j, k \in 1..Len(conversationHistory[s]) :
    /\ j < k
    /\ IsToolResult(conversationHistory[s][j]) /\ IsToolResult(conversationHistory[s][k])
    /\ appendedBy[s][j] # appendedBy[s][k]
    /\ req[appendedBy[s][j]].pc = "failed"
    /\ Cardinality(ToolUseIndexes(conversationHistory[s][k - 1].blocks)) = 2

\* no two neighbours of the turns are on the same side
Alternates(turns) ==
  \A k \in 1..(Len(turns) - 1) : turns[k].role # turns[k + 1].role

(***************************************************************************)
(* C26.  Requests served one at a time: in every history handed to the     *)
(* provider the turns alternate between the user side (user text or tool   *)
(* result) and the assistant side.                                         *)
(***************************************************************************)
C26_TurnsAlternate ==
  \A r \in Reqs : \A n \in 1..Len(req[r].calls) : Alternates(req[r].calls[n].messages)

(***************************************************************************)
(* C27.  Within a query the first provider call, and no other, has the     *)
(* full system prompt; every later call has the follow-up prompt and there *)
(* is one such call for each tool dispatch, made right after it; each call *)
(* is handed the whole history of the session as it is at the call: the    *)
(* history of the first call followed by the assistant and tool-result     *)
(* turns of the round trips made since.                                    *)
(***************************************************************************)
C27_FullPromptOnFirstCallOnly ==
  \A r \in Reqs :
    Started(r)
    => /\ Len(req[r].calls) = 1 + Len(req[r].dispatched)
       /\ \A n \in 1..Len(req[r].calls) :
            /\ req[r].calls[n].system = (IF n = 1 THEN "full" ELSE "followup")
            /\ req[r].calls[n].messages =
                 FirstCallMessages(r) \o SubSeq(req[r].appended, 2, 2 * n - 1)
            /\ n > 1 => /\ IsToolResult(req[r].calls[n].messages[Len(req[r].calls[n].messages)])
                        /\ req[r].calls[n].messages[Len(req[r].calls[n].messages)].blocks[1].tool_use_id
                             = req[r].dispatched[n - 1].id
       /\ req[r].pc = "awaitProvider"
            => req[r].calls[Len(req[r].calls)].messages = conversationHistory[req[r].sessionId]

\* a query waits for the answer to its third call
C27_Witness ==
  \E r \in Reqs :
    /\ req[r].pc = "awaitProvider"
    /\ Len(req[r].calls) = 3
    /\ req[r].calls[1].system = "full"
    /\ req[r].calls[3].system = "followup"
    /\ Len(req[r].calls[3].messages) = 5

(***************************************************************************)
(* C28.  If every provider call is answered or fails in the end, every     *)
(* query that has started comes to return a response or to raise an        *)
(* error, whatever the provider replies, a tool request in every reply     *)
(* included.                                                               *)
(***************************************************************************)
C28_QueryTerminates ==
  \A r \in Reqs : Started(r) ~> (req[r].pc \in {"done", "failed"})

\* a query has returned after a tool request in each of its six replies
C28_Witness ==
  \E r \in Reqs :
    /\ req[r].pc = "done"
    /\ Len(req[r].replies) = maxIterations + 1
    /\ \A n \in 1..Len(req[r].replies) : HasToolUse(req[r].replies[n])

(***************************************************************************)
(* C29.  In every history, each assistant turn with tool-request blocks is *)
(* followed by a turn that carries a tool result for the id of every one   *)
(* of those blocks.                                                        *)
(***************************************************************************)
C29_EveryToolRequestAnswered ==
  \A s \in SessionIds : \A k \in 1..Len(conversationHistory[s]) :
    LET turn == conversationHistory[s][k]
    IN (turn.role = "assistant" /\ HasToolUse(turn.blocks))
       => /\ k < Len(conversationHistory[s])
          /\ IsToolResult(conversationHistory[s][k + 1])
          /\ \A j \in ToolUseIndexes(turn.blocks) :
               \E b \in 1..Len(conversationHistory[s][k + 1].blocks) :
                 conversationHistory[s][k + 1].blocks[b].tool_use_id = turn.blocks[j].id

(***************************************************************************)
(* C30.  In every state, under every interleaving of queries and clears,   *)
(* a history that is not empty begins with a user-text turn.               *)
(***************************************************************************)
C30_HistoryBeginsWithUserText ==
  \A s \in SessionIds :
    conversationHistory[s] # <<>> => IsUserText(conversationHistory[s][1])

====
